---------------------------- MODULE Spec2Model ----------------------------
(***************************************************************************)
(* Model of populate_database.py: the ShippingDataProcessor load pipeline   *)
(* (connect, create tables, Path A over shipping_data_0.csv, Path B over   *)
(* shipping_data_1.csv joined with shipping_data_2.csv, validation, final  *)
(* cleanup) run by main() against a MySQL store.                           *)
(*                                                                         *)
(* Text is a sequence of one-character strings.  A CSV cell whose text is  *)
(* empty is what pandas reads as NaN.  SQL comparison of names is exact    *)
(* string equality.                                                        *)
(***************************************************************************)
EXTENDS Integers, Sequences, FiniteSets, TLC

(* ------------------------------ bounds --------------------------------- *)

MaxRowsA == 3

MaxRowsB == 3

MaxRowsC == 2

MaxRuns == 2

(* ------------------------------- text ---------------------------------- *)

\* Code points of the characters used, as Python orders strings.
Code(c) ==
  CASE c = " " -> 32
    [] c = "." -> 46
    [] c = "1" -> 49
    [] c = "2" -> 50
    [] c = "3" -> 51
    [] c = "a" -> 97
    [] c = "b" -> 98
    [] c = "n" -> 110
    [] c = "s" -> 115
    [] c = "t" -> 116
    [] c = "w" -> 119
    [] c = "x" -> 120
    [] OTHER -> 127

Digits == {"1", "2", "3"}

DigitValue(c) == Code(c) - 48

\* Python's order on str: lexicographic by code point.
RECURSIVE StrLess(_, _)
StrLess(s, t) ==
  IF t = <<>> THEN FALSE
  ELSE IF s = <<>> THEN TRUE
  ELSE IF Code(Head(s)) # Code(Head(t)) THEN Code(Head(s)) < Code(Head(t))
  ELSE StrLess(Tail(s), Tail(t))

RECURSIVE LStrip(_)
LStrip(s) == IF s # <<>> /\ Head(s) = " " THEN LStrip(Tail(s)) ELSE s

RECURSIVE RStrip(_)
RStrip(s) ==
  IF s # <<>> /\ s[Len(s)] = " " THEN RStrip(SubSeq(s, 1, Len(s) - 1)) ELSE s

\* str.strip()
Strip(s) == RStrip(LStrip(s))

\* pandas reads an empty cell as NaN.
IsNaN(cell) == cell = <<>>

\* str(value) of a DataFrame value of an object column: str(nan) is "nan".
Str(cell) == IF IsNaN(cell) THEN <<"n", "a", "n">> ELSE cell

IsIntText(s) == s # <<>> /\ \A k \in 1..Len(s) : s[k] \in Digits

\* digits "." digits
IsFloatText(s) ==
  \E d \in 2..(Len(s) - 1) :
    /\ s[d] = "."
    /\ IsIntText(SubSeq(s, 1, d - 1))
    /\ IsIntText(SubSeq(s, d + 1, Len(s)))

RECURSIVE ParseDigits(_)
ParseDigits(s) ==
  IF s = <<>> THEN 0
  ELSE 10 * ParseDigits(SubSeq(s, 1, Len(s) - 1)) + DigitValue(s[Len(s)])

\* The integer part of a decimal literal.
IntPart(s) ==
  IF IsIntText(s) THEN ParseDigits(s)
  ELSE LET d == CHOOSE k \in 1..Len(s) : s[k] = "." IN ParseDigits(SubSeq(s, 1, d - 1))

\* The dtype pandas.read_csv infers for a column of cells.
Dtype(cells) ==
  IF \A c \in cells : IsIntText(c) THEN "int64"
  ELSE IF \A c \in cells : IsNaN(c) \/ IsIntText(c) \/ IsFloatText(c) THEN "float64"
  ELSE "object"

\* int(value) of a DataFrame value of a column of the given dtype:
\* [ok |-> FALSE] is a raised ValueError.
ToInt(dtype, cell) ==
  IF IsNaN(cell) THEN [ok |-> FALSE, val |-> 0]
  ELSE IF dtype = "object"
    THEN IF IsIntText(cell) THEN [ok |-> TRUE, val |-> ParseDigits(cell)]
                            ELSE [ok |-> FALSE, val |-> 0]
    ELSE [ok |-> TRUE, val |-> IntPart(cell)]

(* ------------------------------ files ---------------------------------- *)

ColsA == {"product", "product_quantity", "origin_warehouse", "destination_store"}

ColsB == {"shipment_identifier", "product"}

ColsC == {"shipment_identifier", "origin_warehouse", "destination_store"}

Restrict(r, h) == [c \in h |-> r[c]]

SeqsUpTo(S, n) == UNION {[1..k -> S] : k \in 0..n}

\* A DataFrame: its columns and its rows in file order, each row a record
\* over the columns.
Frames(h, rowset, n) ==
  {[header |-> h, rows |-> [k \in DOMAIN rs |-> Restrict(rs[k], h)]] :
     rs \in SeqsUpTo(rowset, n)}

Column(df, col) == {df.rows[k][col] : k \in DOMAIN df.rows}

(* ------------------------------ store ---------------------------------- *)

\* SELECT id FROM product WHERE name = %s; fetchone()
SelectProductId(product, name) ==
  LET hits == {p \in product : p.name = name}
  IN  IF hits = {} THEN [found |-> FALSE, id |-> 0]
      ELSE [found |-> TRUE,
            id |-> (CHOOSE p \in hits : \A q \in hits : p.id <= q.id).id]

\* INSERT INTO product (name): with UNIQUE KEY unique_name a second row of
\* the same name is an IntegrityError ([ok |-> FALSE]).
InsertProduct(schema, product, next, name) ==
  IF schema = "keyed" /\ \E p \in product : p.name = name
    THEN [ok |-> FALSE, product |-> product, id |-> 0, next |-> next]
    ELSE [ok |-> TRUE, product |-> product \cup {[id |-> next, name |-> name]},
          id |-> next, next |-> next + 1]

\* A variant of get_or_create_product_id that trusts the cache alone.
GetOrCreateCacheOnly(schema, product, next, cache, name) ==
  IF name \in DOMAIN cache
    THEN [ok |-> TRUE, id |-> cache[name], product |-> product, next |-> next,
          cache |-> cache, created |-> FALSE]
    ELSE LET ins == InsertProduct(schema, product, next, name)
         IN  [ok |-> ins.ok, id |-> ins.id, product |-> ins.product,
              next |-> ins.next,
              cache |-> IF ins.ok THEN (name :> ins.id) @@ cache ELSE cache,
              created |-> ins.ok]

\* A variant of get_or_create_product_id that caches the counter after the
\* insert instead of the inserted row's id.
GetOrCreateStaleCache(schema, product, next, cache, name) ==
  IF name \in DOMAIN cache
    THEN [ok |-> TRUE, id |-> cache[name], product |-> product, next |-> next,
          cache |-> cache, created |-> FALSE]
    ELSE LET sel == SelectProductId(product, name)
         IN  IF sel.found
               THEN [ok |-> TRUE, id |-> sel.id, product |-> product,
                     next |-> next, cache |-> (name :> sel.id) @@ cache,
                     created |-> FALSE]
               ELSE LET ins == InsertProduct(schema, product, next, name)
                    IN  [ok |-> ins.ok, id |-> ins.id, product |-> ins.product,
                         next |-> ins.next,
                         cache |-> IF ins.ok THEN (name :> ins.next) @@ cache
                                             ELSE cache,
                         created |-> ins.ok]

\* get_or_create_product_id: cache, else SELECT, else INSERT; cache the id.
GetOrCreate(schema, product, next, cache, name) ==
  IF name \in DOMAIN cache
    THEN [ok |-> TRUE, id |-> cache[name], product |-> product, next |-> next,
          cache |-> cache, created |-> FALSE]
    ELSE LET sel == SelectProductId(product, name)
         IN  IF sel.found
               THEN [ok |-> TRUE, id |-> sel.id, product |-> product,
                     next |-> next, cache |-> (name :> sel.id) @@ cache,
                     created |-> FALSE]
               ELSE LET ins == InsertProduct(schema, product, next, name)
                    IN  [ok |-> ins.ok, id |-> ins.id, product |-> ins.product,
                         next |-> ins.next,
                         cache |-> IF ins.ok THEN (name :> ins.id) @@ cache
                                             ELSE cache,
                         created |-> ins.ok]

\* A variant of InsertShipment that keeps one row per (product, quantity,
\* origin, destination).
InsertShipmentOnce(shipment, next, product_id, quantity, origin, destination) ==
  IF \E r \in shipment : /\ r.product_id = product_id /\ r.quantity = quantity
                          /\ r.origin = origin /\ r.destination = destination
    THEN shipment
    ELSE shipment \cup {[id |-> next, product_id |-> product_id,
                         quantity |-> quantity, origin |-> origin,
                         destination |-> destination]}

\* INSERT INTO shipment (product_id, quantity, origin, destination)
InsertShipment(shipment, next, product_id, quantity, origin, destination) ==
  shipment \cup {[id |-> next, product_id |-> product_id, quantity |-> quantity,
                  origin |-> origin, destination |-> destination]}

(* ------------------------- pandas in Path B ---------------------------- *)

\* df2.set_index('shipment_identifier')[['origin_warehouse',
\* 'destination_store']].to_dict('index'): KeyError on a missing column,
\* ValueError when the index is not unique.
BuildRouteMapping(df2) ==
  IF ~(ColsC \subseteq df2.header)
    THEN [ok |-> FALSE, err |-> "missing_column", map |-> <<>>]
  ELSE IF \E i, j \in DOMAIN df2.rows :
            i # j /\ df2.rows[i].shipment_identifier = df2.rows[j].shipment_identifier
    THEN [ok |-> FALSE, err |-> "route_map", map |-> <<>>]
  ELSE [ok |-> TRUE, err |-> "none",
        map |-> [s \in Column(df2, "shipment_identifier") |->
                   LET r == CHOOSE r \in {df2.rows[k] : k \in DOMAIN df2.rows} :
                              r.shipment_identifier = s
                   IN  [origin_warehouse |-> r.origin_warehouse,
                        destination_store |-> r.destination_store]]]

KeyLess(a, b) ==
  \/ StrLess(a.shipment_identifier, b.shipment_identifier)
  \/ /\ a.shipment_identifier = b.shipment_identifier
     /\ StrLess(a.product, b.product)

RECURSIVE SortKeys(_)
SortKeys(S) ==
  IF S = {} THEN <<>>
  ELSE LET m == CHOOSE x \in S : \A y \in S \ {x} : KeyLess(x, y)
       IN  <<m>> \o SortKeys(S \ {m})

\* A variant of GroupSize that reports each group as one row.
GroupSizeOne(df1, key) == 1

GroupSize(df1, key) ==
  Cardinality({k \in DOMAIN df1.rows :
                 /\ df1.rows[k].shipment_identifier = key.shipment_identifier
                 /\ df1.rows[k].product = key.product})

\* df1.groupby(['shipment_identifier', 'product']).size()
\*    .reset_index(name='quantity'): rows with a NaN key are dropped, the
\* groups come sorted by key; KeyError on a missing column.
GroupBy(df1) ==
  IF ~(ColsB \subseteq df1.header)
    THEN [ok |-> FALSE, groups |-> <<>>]
    ELSE LET keys == {[shipment_identifier |-> df1.rows[k].shipment_identifier,
                       product |-> df1.rows[k].product] : k \in
                        {k \in DOMAIN df1.rows :
                           /\ ~IsNaN(df1.rows[k].shipment_identifier)
                           /\ ~IsNaN(df1.rows[k].product)}}
             sorted == SortKeys(keys)
         IN  [ok |-> TRUE,
              groups |-> [g \in DOMAIN sorted |->
                            [shipment_identifier |-> sorted[g].shipment_identifier,
                             product |-> sorted[g].product,
                             quantity |-> GroupSize(df1, sorted[g])]]]

(* ------------------------------ state ---------------------------------- *)

VARIABLES
  fileA, fileB, fileC,        \* shipping_data_0/1/2.csv as read_csv returns them
  schema,                     \* product table: "absent", "keyed" (UNIQUE KEY), "legacy"
  product, shipment,          \* the tables as the open connection sees them
  committed,                  \* the tables as committed
  next_product_id, next_shipment_id,   \* AUTO_INCREMENT counters
  temp_connection, connection, cursor, \* "none", "open", "closed"; cursor: BOOLEAN
  product_name_to_id,         \* the processor's cache
  pc, run, outcome, exit_code,         \* main's position and the process's end
  idx, rows_inserted,         \* the loop of the running path
  route_mapping, shipment_products,    \* Path B's locals
  fault,                      \* what raised out of a method (or what validation logged), else "none"
  row_errors,                 \* rows skipped by the per-row handler, this run
  provenance,                 \* history: which row each shipment insert came from
  resolved,                   \* history: get_or_create_product_id calls, this run
  history,                    \* history: the committed store at each process exit
  events                      \* history: the reads, rows and commits of the paths, this run

vars == <<fileA, fileB, fileC, schema, product, shipment, committed,
          next_product_id, next_shipment_id, temp_connection, connection,
          cursor, product_name_to_id, pc, run, outcome, exit_code, idx,
          rows_inserted, route_mapping, shipment_products, fault, row_errors,
          provenance, resolved, history, events>>

files == <<fileA, fileB, fileC>>

store == <<schema, product, shipment, committed, next_product_id, next_shipment_id>>

conns == <<temp_connection, connection, cursor>>

locals == <<idx, rows_inserted, route_mapping, shipment_products>>

ghosts == <<row_errors, provenance, resolved, history, events>>

UnknownOrigin == <<"Unknown Origin">>

UnknownDestination == <<"Unknown Destination">>

(* ------------------------- the rows of a path -------------------------- *)

\* The try block of process_shipping_data_0's loop on row k of df.
\* raised: an exception reached the per-row handler.
ProcessRow0(df, k, sch, prod, ship, nextP, nextS, cache) ==
  LET row == df.rows[k]
      skip == [raised |-> TRUE, inserted |-> FALSE, product |-> prod,
               shipment |-> ship, next_product_id |-> nextP,
               next_shipment_id |-> nextS, cache |-> cache, calls |-> <<>>]
  IN  IF ~({"product", "product_quantity"} \subseteq df.header) THEN skip
      ELSE
      LET name == Strip(Str(row.product))
          q == ToInt(Dtype(Column(df, "product_quantity")), row.product_quantity)
      IN  IF ~q.ok THEN skip
          ELSE
          LET g == GetOrCreate(sch, prod, nextP, cache, name)
              call == <<[path |-> "A", name |-> name, ok |-> g.ok, id |-> g.id,
                     before |-> prod, after |-> g.product]>>
          IN  IF ~g.ok THEN [skip EXCEPT !.calls = call]
              ELSE IF ~({"origin_warehouse", "destination_store"} \subseteq df.header)
                THEN [skip EXCEPT !.product = g.product, !.next_product_id = g.next,
                                  !.cache = g.cache, !.calls = call]
              ELSE [raised |-> FALSE, inserted |-> TRUE, product |-> g.product,
                    shipment |-> InsertShipment(ship, nextS, g.id, q.val,
                                                Str(row.origin_warehouse),
                                                Str(row.destination_store)),
                    next_product_id |-> g.next, next_shipment_id |-> nextS + 1,
                    cache |-> g.cache, calls |-> call]

\* A variant of RouteFor whose fallback leaves both fields empty.
RouteForNoSentinel(routes, shipment_id) ==
  IF shipment_id \in DOMAIN routes
    THEN [origin |-> routes[shipment_id].origin_warehouse,
          destination |-> routes[shipment_id].destination_store]
    ELSE [origin |-> <<>>, destination |-> <<>>]

\* The route of a shipment identifier, or the sentinels.
RouteFor(routes, shipment_id) ==
  IF shipment_id \in DOMAIN routes
    THEN [origin |-> routes[shipment_id].origin_warehouse,
          destination |-> routes[shipment_id].destination_store]
    ELSE [origin |-> UnknownOrigin, destination |-> UnknownDestination]

\* The try block of process_shipping_data_1_and_2's loop on row k of the
\* grouped frame.
ProcessRow1(groups, k, routes, sch, prod, ship, nextP, nextS, cache) ==
  LET row == groups[k]
      name == Strip(Str(row.product))
      route == RouteFor(routes, row.shipment_identifier)
      g == GetOrCreate(sch, prod, nextP, cache, name)
      call == <<[path |-> "B", name |-> name, ok |-> g.ok, id |-> g.id,
                 before |-> prod, after |-> g.product]>>
  IN  IF ~g.ok
        THEN [raised |-> TRUE, inserted |-> FALSE, product |-> prod,
              shipment |-> ship, next_product_id |-> nextP,
              next_shipment_id |-> nextS, cache |-> cache, calls |-> call]
        ELSE [raised |-> FALSE, inserted |-> TRUE, product |-> g.product,
              shipment |-> InsertShipment(ship, nextS, g.id, row.quantity,
                                          route.origin, route.destination),
              next_product_id |-> g.next, next_shipment_id |-> nextS + 1,
              cache |-> g.cache, calls |-> call]

(* ------------------------------- main ---------------------------------- *)

Snapshot == [run |-> run, product |-> committed.product, shipment |-> committed.shipment]

\* An exception leaves a method of the processor for main's handler.
Raise(what) ==
  /\ pc' = "except"
  /\ fault' = what

\* main: the check that the three files exist; a missing file is logged and
\* main returns before a processor is made.
CheckFiles ==
  /\ pc = "start"
  /\ \E missing \in BOOLEAN :
       IF missing
         THEN /\ pc' = "exited"
              /\ outcome' = "missing_files"
              /\ exit_code' = 0
              /\ history' = Append(history, Snapshot @@ [outcome |-> "missing_files"])
         ELSE /\ pc' = "connect"
              /\ UNCHANGED <<outcome, exit_code, history>>
  /\ UNCHANGED <<files, store, conns, product_name_to_id, run, locals, fault,
                 row_errors, provenance, resolved, events>>

ConnectSteps == {"temp_connect", "create_database", "use_database", "connect", "cursor"}

\* connect_to_database: a temporary connection creates the database and is
\* closed, then the connection proper and its cursor are opened.  Any step
\* may raise mysql.connector.Error, which is logged and raised again.
connect_to_database ==
  /\ pc = "connect"
  /\ \E failed \in ConnectSteps \cup {"none"} :
       /\ temp_connection' =
            CASE failed = "temp_connect" -> "none"
              [] failed \in {"create_database", "use_database"} -> "open"
              [] OTHER -> "closed"
       /\ connection' = IF failed \in {"cursor", "none"} THEN "open" ELSE "none"
       /\ cursor' = (failed = "none")
       /\ IF failed = "none"
            THEN pc' = "create_tables" /\ UNCHANGED fault
            ELSE Raise("connect")
  /\ UNCHANGED <<files, store, product_name_to_id, run, outcome, exit_code,
                 locals, ghosts>>

\* create_tables: CREATE TABLE IF NOT EXISTS for product and shipment, commit.
create_tables ==
  /\ pc = "create_tables"
  /\ \E ok \in BOOLEAN :
       IF ok
         THEN /\ schema' = IF schema = "absent" THEN "keyed" ELSE schema
              /\ pc' = "path_a_read"
              /\ UNCHANGED fault
         ELSE /\ Raise("schema")
              /\ UNCHANGED schema
  /\ UNCHANGED <<files, product, shipment, committed, next_product_id,
                 next_shipment_id, conns, product_name_to_id, run, outcome,
                 exit_code, locals, ghosts>>

\* process_shipping_data_0 up to its loop: read_csv.
PathA_Read ==
  /\ pc = "path_a_read"
  /\ \E ok \in BOOLEAN :
       IF ok
         THEN /\ pc' = "path_a_row"
              /\ idx' = 1
              /\ rows_inserted' = 0
              /\ UNCHANGED fault
              /\ events' = Append(events, [path |-> "A", op |-> "read", ok |-> TRUE])
         ELSE /\ Raise("read_a")
              /\ UNCHANGED <<idx, rows_inserted>>
              /\ events' = Append(events, [path |-> "A", op |-> "read", ok |-> FALSE])
  /\ UNCHANGED <<files, store, conns, product_name_to_id, run, outcome,
                 exit_code, route_mapping, shipment_products, row_errors,
                 provenance, resolved, history>>

\* A variant of PathA_Row whose handler raises again instead of continuing.
PathA_RowAbort ==
  /\ pc = "path_a_row"
  /\ idx <= Len(fileA.rows)
  /\ LET r == ProcessRow0(fileA, idx, schema, product, shipment,
                          next_product_id, next_shipment_id, product_name_to_id)
     IN  /\ product' = r.product
         /\ shipment' = r.shipment
         /\ next_product_id' = r.next_product_id
         /\ next_shipment_id' = r.next_shipment_id
         /\ product_name_to_id' = r.cache
         /\ rows_inserted' = IF r.inserted THEN rows_inserted + 1 ELSE rows_inserted
         /\ row_errors' = IF r.raised THEN row_errors + 1 ELSE row_errors
         /\ resolved' = resolved \o r.calls
         /\ provenance' =
              IF r.inserted
                THEN Append(provenance, [run |-> run, path |-> "A", idx |-> idx,
                                         key |-> <<>>, id |-> next_shipment_id])
                ELSE provenance
         /\ events' = Append(events, [path |-> "A", op |-> "row", ok |-> ~r.raised])
         /\ IF r.raised THEN Raise("row") /\ UNCHANGED idx
                        ELSE idx' = idx + 1 /\ UNCHANGED <<pc, fault>>
  /\ UNCHANGED <<files, schema, committed, conns, run, outcome, exit_code,
                 route_mapping, shipment_products, history>>

\* One iteration of process_shipping_data_0's loop: the try block and the
\* handler that logs a warning and continues.
PathA_Row ==
  /\ pc = "path_a_row"
  /\ idx <= Len(fileA.rows)
  /\ LET r == ProcessRow0(fileA, idx, schema, product, shipment,
                          next_product_id, next_shipment_id, product_name_to_id)
     IN  /\ product' = r.product
         /\ shipment' = r.shipment
         /\ next_product_id' = r.next_product_id
         /\ next_shipment_id' = r.next_shipment_id
         /\ product_name_to_id' = r.cache
         /\ rows_inserted' = IF r.inserted THEN rows_inserted + 1 ELSE rows_inserted
         /\ row_errors' = IF r.raised THEN row_errors + 1 ELSE row_errors
         /\ resolved' = resolved \o r.calls
         /\ provenance' =
              IF r.inserted
                THEN Append(provenance, [run |-> run, path |-> "A", idx |-> idx,
                                         key |-> <<>>, id |-> next_shipment_id])
                ELSE provenance
         /\ events' = Append(events, [path |-> "A", op |-> "row", ok |-> ~r.raised])
  /\ idx' = idx + 1
  /\ UNCHANGED <<files, schema, committed, conns, pc, run, outcome, exit_code,
                 route_mapping, shipment_products, fault, history>>

\* A variant of PathA_Commit that does not wait for the end of the loop.
PathA_CommitEarly ==
  /\ pc = "path_a_row"
  /\ \E ok \in BOOLEAN :
       IF ok
         THEN /\ committed' = [product |-> product, shipment |-> shipment]
              /\ pc' = "path_b_read"
              /\ UNCHANGED fault
         ELSE /\ Raise("commit_a")
              /\ UNCHANGED committed
  /\ events' = Append(events, [path |-> "A", op |-> "commit",
                               ok |-> (pc' # "except"),
                               product |-> committed'.product,
                               shipment |-> committed'.shipment])
  /\ UNCHANGED <<files, schema, product, shipment, next_product_id,
                 next_shipment_id, conns, product_name_to_id, run, outcome,
                 exit_code, locals, row_errors, provenance, resolved, history>>

\* The commit that ends process_shipping_data_0.
PathA_Commit ==
  /\ pc = "path_a_row"
  /\ idx > Len(fileA.rows)
  /\ \E ok \in BOOLEAN :
       IF ok
         THEN /\ committed' = [product |-> product, shipment |-> shipment]
              /\ pc' = "path_b_read"
              /\ UNCHANGED fault
         ELSE /\ Raise("commit_a")
              /\ UNCHANGED committed
  /\ events' = Append(events, [path |-> "A", op |-> "commit",
                               ok |-> (pc' # "except"),
                               product |-> committed'.product,
                               shipment |-> committed'.shipment])
  /\ UNCHANGED <<files, schema, product, shipment, next_product_id,
                 next_shipment_id, conns, product_name_to_id, run, outcome,
                 exit_code, locals, row_errors, provenance, resolved, history>>

\* process_shipping_data_1_and_2 up to its loop: both read_csv calls, the
\* route mapping, the grouping.
PathB_Read ==
  /\ pc = "path_b_read"
  /\ \E unreadable \in {"none", "read_b", "read_c"} :
       LET routes == BuildRouteMapping(fileC)
           grouped == GroupBy(fileB)
       IN  IF unreadable # "none"
             THEN Raise(unreadable) /\ UNCHANGED locals
           ELSE IF ~routes.ok
             THEN Raise(routes.err) /\ UNCHANGED locals
           ELSE IF ~grouped.ok
             THEN /\ Raise("missing_column")
                  /\ route_mapping' = routes.map
                  /\ UNCHANGED <<idx, rows_inserted, shipment_products>>
           ELSE /\ route_mapping' = routes.map
                /\ shipment_products' = grouped.groups
                /\ idx' = 1
                /\ rows_inserted' = 0
                /\ pc' = "path_b_row"
                /\ UNCHANGED fault
  /\ events' = Append(events, [path |-> "B", op |-> "read", ok |-> (pc' # "except")])
  /\ UNCHANGED <<files, store, conns, product_name_to_id, run, outcome,
                 exit_code, row_errors, provenance, resolved, history>>

\* A variant of PathB_Row that stops the run at a group without a route.
PathB_RowAbort ==
  /\ pc = "path_b_row"
  /\ idx <= Len(shipment_products)
  /\ LET r == ProcessRow1(shipment_products, idx, route_mapping, schema, product,
                          shipment, next_product_id, next_shipment_id,
                          product_name_to_id)
         miss == shipment_products[idx].shipment_identifier \notin DOMAIN route_mapping
     IN  IF miss
           THEN /\ Raise("row")
                /\ row_errors' = row_errors + 1
                /\ UNCHANGED <<product, shipment, next_product_id, next_shipment_id,
                               product_name_to_id, rows_inserted, resolved,
                               provenance, idx>>
                /\ events' = Append(events, [path |-> "B", op |-> "row", ok |-> FALSE])
           ELSE /\ product' = r.product
                /\ shipment' = r.shipment
                /\ next_product_id' = r.next_product_id
                /\ next_shipment_id' = r.next_shipment_id
                /\ product_name_to_id' = r.cache
                /\ rows_inserted' = IF r.inserted THEN rows_inserted + 1 ELSE rows_inserted
                /\ row_errors' = IF r.raised THEN row_errors + 1 ELSE row_errors
                /\ resolved' = resolved \o r.calls
                /\ provenance' =
                     IF r.inserted
                       THEN Append(provenance,
                                   [run |-> run, path |-> "B", idx |-> idx,
                                    key |-> <<shipment_products[idx].shipment_identifier,
                                              shipment_products[idx].product>>,
                                    id |-> next_shipment_id])
                       ELSE provenance
                /\ events' = Append(events, [path |-> "B", op |-> "row", ok |-> ~r.raised])
                /\ idx' = idx + 1
                /\ UNCHANGED <<pc, fault>>
  /\ UNCHANGED <<files, schema, committed, conns, run, outcome, exit_code,
                 route_mapping, shipment_products, history>>

\* One iteration of process_shipping_data_1_and_2's loop.
PathB_Row ==
  /\ pc = "path_b_row"
  /\ idx <= Len(shipment_products)
  /\ LET r == ProcessRow1(shipment_products, idx, route_mapping, schema, product,
                          shipment, next_product_id, next_shipment_id,
                          product_name_to_id)
     IN  /\ product' = r.product
         /\ shipment' = r.shipment
         /\ next_product_id' = r.next_product_id
         /\ next_shipment_id' = r.next_shipment_id
         /\ product_name_to_id' = r.cache
         /\ rows_inserted' = IF r.inserted THEN rows_inserted + 1 ELSE rows_inserted
         /\ row_errors' = IF r.raised THEN row_errors + 1 ELSE row_errors
         /\ resolved' = resolved \o r.calls
         /\ provenance' =
              IF r.inserted
                THEN Append(provenance,
                            [run |-> run, path |-> "B", idx |-> idx,
                             key |-> <<shipment_products[idx].shipment_identifier,
                                       shipment_products[idx].product>>,
                             id |-> next_shipment_id])
                ELSE provenance
         /\ events' = Append(events, [path |-> "B", op |-> "row", ok |-> ~r.raised])
  /\ idx' = idx + 1
  /\ UNCHANGED <<files, schema, committed, conns, pc, run, outcome, exit_code,
                 route_mapping, shipment_products, fault, history>>

\* The commit that ends process_shipping_data_1_and_2.
PathB_Commit ==
  /\ pc = "path_b_row"
  /\ idx > Len(shipment_products)
  /\ \E ok \in BOOLEAN :
       IF ok
         THEN /\ committed' = [product |-> product, shipment |-> shipment]
              /\ pc' = "validate"
              /\ UNCHANGED fault
         ELSE /\ Raise("commit_b")
              /\ UNCHANGED committed
  /\ events' = Append(events, [path |-> "B", op |-> "commit",
                               ok |-> (pc' # "except"),
                               product |-> committed'.product,
                               shipment |-> committed'.shipment])
  /\ UNCHANGED <<files, schema, product, shipment, next_product_id,
                 next_shipment_id, conns, product_name_to_id, run, outcome,
                 exit_code, locals, row_errors, provenance, resolved, history>>

\* validate_data_insertion, then main's closing log lines.  The queries only
\* read; a mysql.connector.Error in them is logged and swallowed.
validate_data_insertion ==
  /\ pc = "validate"
  /\ \E ok \in BOOLEAN :
       fault' = IF ok THEN fault ELSE "validation_logged"
  /\ pc' = "finally"
  /\ outcome' = "success"
  /\ UNCHANGED <<files, store, conns, product_name_to_id, run, exit_code,
                 locals, ghosts>>

\* main's except clause: log the fatal error, sys.exit(1).
Fatal ==
  /\ pc = "except"
  /\ pc' = "finally"
  /\ outcome' = "fatal"
  /\ UNCHANGED <<files, store, conns, product_name_to_id, run, exit_code,
                 locals, fault, ghosts>>

\* A variant of close_connection that commits what the connection holds.
CloseCommitting ==
  /\ pc = "finally"
  /\ connection' = IF connection = "open" THEN "closed" ELSE connection
  /\ committed' = [product |-> product, shipment |-> shipment]
  /\ pc' = "exited"
  /\ exit_code' = IF outcome = "fatal" THEN 1 ELSE 0
  /\ history' = Append(history, Snapshot @@ [outcome |-> outcome])
  /\ UNCHANGED <<files, schema, product, shipment, next_product_id,
                 next_shipment_id, temp_connection, cursor, product_name_to_id,
                 run, outcome, locals, fault, row_errors, provenance, resolved,
                 events>>

\* main's finally clause, close_connection, and the end of the process:
\* closing the connection discards what it had not committed.
close_connection ==
  /\ pc = "finally"
  /\ connection' = IF connection = "open" THEN "closed" ELSE connection
  /\ product' = committed.product
  /\ shipment' = committed.shipment
  /\ pc' = "exited"
  /\ exit_code' = IF outcome = "fatal" THEN 1 ELSE 0
  /\ history' = Append(history, Snapshot @@ [outcome |-> outcome])
  /\ UNCHANGED <<files, schema, committed, next_product_id, next_shipment_id,
                 temp_connection, cursor, product_name_to_id, run, outcome,
                 locals, fault, row_errors, provenance, resolved, events>>

\* The script is started again on the same files and the same store: a new
\* process, a new processor with an empty cache.
Rerun ==
  /\ pc = "exited"
  /\ run < MaxRuns
  /\ run' = run + 1
  /\ pc' = "start"
  /\ outcome' = "running"
  /\ exit_code' = -1
  /\ temp_connection' = "none"
  /\ connection' = "none"
  /\ cursor' = FALSE
  /\ product_name_to_id' = <<>>
  /\ idx' = 0
  /\ rows_inserted' = 0
  /\ route_mapping' = <<>>
  /\ shipment_products' = <<>>
  /\ fault' = "none"
  /\ row_errors' = 0
  /\ resolved' = <<>>
  /\ events' = <<>>
  /\ UNCHANGED <<files, store, provenance, history>>

Next ==
  \/ CheckFiles
  \/ connect_to_database
  \/ create_tables
  \/ PathA_Read
  \/ PathA_Row
  \/ PathA_Commit
  \/ PathB_Read
  \/ PathB_Row
  \/ PathB_Commit
  \/ validate_data_insertion
  \/ Fatal
  \/ close_connection
  \/ Rerun

(* ------------------------------ inputs --------------------------------- *)

RowA(p, q, o, d) ==
  [product |-> p, product_quantity |-> q, origin_warehouse |-> o,
   destination_store |-> d]

RowB(s, p) == [shipment_identifier |-> s, product |-> p]

RowC(s, o, d) ==
  [shipment_identifier |-> s, origin_warehouse |-> o, destination_store |-> d]

\* The state of a fresh process before main runs, on the given files, against
\* an empty store whose product table is absent or was made earlier without
\* the unique key (the schema of the module docstring).
InitOn(filesA, filesB, filesC, schemas) ==
  /\ fileA \in filesA
  /\ fileB \in filesB
  /\ fileC \in filesC
  /\ schema \in schemas
  /\ product = {}
  /\ shipment = {}
  /\ committed = [product |-> {}, shipment |-> {}]
  /\ next_product_id = 1
  /\ next_shipment_id = 1
  /\ temp_connection = "none"
  /\ connection = "none"
  /\ cursor = FALSE
  /\ product_name_to_id = <<>>
  /\ pc = "start"
  /\ run = 1
  /\ outcome = "running"
  /\ exit_code = -1
  /\ idx = 0
  /\ rows_inserted = 0
  /\ route_mapping = <<>>
  /\ shipment_products = <<>>
  /\ fault = "none"
  /\ row_errors = 0
  /\ provenance = <<>>
  /\ resolved = <<>>
  /\ history = <<>>
  /\ events = <<>>

\* One frame that lacks the column `col`.
Lacking(cols, col, row) ==
  {[header |-> cols \ {col}, rows |-> <<Restrict(row, cols \ {col})>>]}

A1 == RowA(<<"a">>, <<"2">>, <<"w">>, <<"s">>)

B1 == RowB(<<"1">>, <<"a">>)

C1 == RowC(<<"1">>, <<"w">>, <<"s">>)

C1x == RowC(<<"1">>, <<"x">>, <<"t">>)

\* Whole runs and reruns on small files: product names shared by the two
\* paths up to surrounding blanks, a route miss, a repeated route identifier,
\* a missing column in each file.
A2 == RowA(<<" ", "b">>, <<"3">>, <<"w">>, <<"s">>)

FilesA == {[header |-> ColsA, rows |-> rs] :
             rs \in {<<>>, <<A1>>, <<A2>>, <<A1, A1>>, <<A1, A2>>, <<A2, A1>>,
                     <<A2, A2>>}}

B2 == RowB(<<"2">>, <<"a", " ">>)

FilesB == {[header |-> ColsB, rows |-> rs] :
             rs \in {<<>>, <<B1>>, <<B2>>, <<B1, B1>>, <<B1, B2>>, <<B2, B1>>,
                     <<B2, B2>>}}

FilesC == {[header |-> ColsC, rows |-> rs] :
             rs \in {<<>>, <<C1>>, <<C1x>>, <<C1, C1x>>}}

Init ==
  InitOn(FilesA \cup Lacking(ColsA, "origin_warehouse", A1),
         FilesB \cup Lacking(ColsB, "product", B1),
         FilesC \cup Lacking(ColsC, "shipment_identifier", C1),
         {"absent", "legacy"})

Spec == Init /\ [][Next]_vars

\* One run of the script.
NextRun ==
  \/ CheckFiles
  \/ connect_to_database
  \/ create_tables
  \/ PathA_Read
  \/ PathA_Row
  \/ PathA_Commit
  \/ PathB_Read
  \/ PathB_Row
  \/ PathB_Commit
  \/ validate_data_insertion
  \/ Fatal
  \/ close_connection

\* One run over every Source-A file of up to MaxRowsA rows, each row valid
\* (one with a blank before the name), or with a decimal, a word or nothing
\* for its quantity, or with an empty product, origin or destination.
RowsA0 ==
  {A1,
   RowA(<<" ", "a">>, <<"1", "2">>, <<"w">>, <<"s">>),
   RowA(<<"a">>, <<"2", ".", "3">>, <<"w">>, <<"s">>),
   RowA(<<"a">>, <<"x">>, <<"w">>, <<"s">>),
   RowA(<<"a">>, <<>>, <<"w">>, <<"s">>),
   RowA(<<>>, <<"2">>, <<"w">>, <<"s">>),
   RowA(<<"a">>, <<"2">>, <<>>, <<"s">>),
   RowA(<<"b">>, <<"2">>, <<"w">>, <<>>)}

InitA ==
  InitOn(Frames(ColsA, RowsA0, MaxRowsA)
           \cup Lacking(ColsA, "origin_warehouse", A1)
           \cup Lacking(ColsA, "product_quantity", A1),
         {[header |-> ColsB, rows |-> <<B1>>]},
         {[header |-> ColsC, rows |-> <<C1>>]},
         {"absent"})

SpecA == InitA /\ [][NextRun]_vars

\* One run over every Source-B file of up to MaxRowsB rows and every
\* Source-C file of up to MaxRowsC rows.
RowsB1 ==
  {B1, RowB(<<"1">>, <<" ", "a">>), RowB(<<"2">>, <<"a">>),
   RowB(<<"2">>, <<"b">>), RowB(<<"1">>, <<>>)}

RowsC2 == {C1, C1x, RowC(<<"3">>, <<"w">>, <<"t">>)}

InitB ==
  InitOn({[header |-> ColsA, rows |-> <<A1>>]},
         Frames(ColsB, RowsB1, MaxRowsB) \cup Lacking(ColsB, "product", B1),
         Frames(ColsC, RowsC2, MaxRowsC)
           \cup Lacking(ColsC, "shipment_identifier", C1),
         {"absent"})

SpecB == InitB /\ [][NextRun]_vars

(* ------------------------------ claims --------------------------------- *)

Range(f) == {f[k] : k \in DOMAIN f}

\* The shipment inserts of this run that a path made.
Inserts(path) == {e \in Range(provenance) : e.run = run /\ e.path = path}

ShipmentRow(table, id) == CHOOSE r \in table : r.id = id

NameOf(table, product_id) == (CHOOSE r \in table : r.id = product_id).name

RECURSIVE SumQuantity(_)
SumQuantity(table) ==
  IF table = {} THEN 0
  ELSE LET r == CHOOSE r \in table : TRUE
       IN  r.quantity + SumQuantity(table \ {r})

\* Row k of Source A has all four fields and a quantity that int() accepts.
QuantityOfA(k) ==
  ToInt(Dtype(Column(fileA, "product_quantity")), fileA.rows[k].product_quantity)

ValidRowA(k) ==
  /\ ColsA \subseteq fileA.header
  /\ \A c \in ColsA : ~IsNaN(fileA.rows[k][c])
  /\ QuantityOfA(k).ok

\* Row k of Source A has a quantity that is missing or that int() rejects.
MalformedRowA(k) ==
  \/ "product_quantity" \notin fileA.header
  \/ ~QuantityOfA(k).ok

PathALoopDone == pc = "path_a_row" /\ idx > Len(fileA.rows)

\* The shipment row that the insert e made is the one row k of Source A asks for.
IsShipmentOfRowA(e, k) ==
  LET r == ShipmentRow(shipment, e.id)
  IN  /\ r.quantity = QuantityOfA(k).val
      /\ r.origin = fileA.rows[k].origin_warehouse
      /\ r.destination = fileA.rows[k].destination_store
      /\ NameOf(product, r.product_id) = Strip(fileA.rows[k].product)

\* C1: when Path A's loop has ended, every valid row of Source A (all four
\* fields present, quantity accepted by int()) has exactly one shipment row,
\* with the row's parsed quantity, origin, destination and trimmed product
\* name, and Path A has added as many shipment rows as there are valid rows.
C1_OneShipmentPerValidRow ==
  PathALoopDone =>
    /\ \A k \in DOMAIN fileA.rows :
         ValidRowA(k) =>
           /\ Cardinality({e \in Inserts("A") : e.idx = k}) = 1
           /\ \A e \in Inserts("A") : e.idx = k => IsShipmentOfRowA(e, k)
    /\ Cardinality(Inserts("A")) =
         Cardinality({k \in DOMAIN fileA.rows : ValidRowA(k)})

\* The part of C1 about valid rows alone (its first conjunct).
ValidRowsInserted ==
  PathALoopDone =>
    \A k \in DOMAIN fileA.rows :
      ValidRowA(k) =>
        /\ Cardinality({e \in Inserts("A") : e.idx = k}) = 1
        /\ \A e \in Inserts("A") : e.idx = k => IsShipmentOfRowA(e, k)

\* The (shipment identifier, product name) pairs that occur in Source B.
PairsB ==
  IF ColsB \subseteq fileB.header
    THEN {<<fileB.rows[k].shipment_identifier, fileB.rows[k].product>> : k \in
            {k \in DOMAIN fileB.rows :
               /\ ~IsNaN(fileB.rows[k].shipment_identifier)
               /\ ~IsNaN(fileB.rows[k].product)}}
    ELSE {}

RowsOfPair(pair) ==
  {k \in DOMAIN fileB.rows :
     <<fileB.rows[k].shipment_identifier, fileB.rows[k].product>> = pair}

\* Path B has committed in this run.
PathBCommitted == pc \in {"validate", "finally"} /\ outcome \in {"running", "success"}

\* C2: once Path B has committed, there is exactly one shipment row per
\* distinct (shipment identifier, product name) pair of Source B, its
\* quantity is the number of Source-B rows carrying the pair, and Path B
\* added no other row.
C2_OneRowPerPair ==
  PathBCommitted =>
    /\ \A pair \in PairsB :
         /\ Cardinality({e \in Inserts("B") : e.key = pair}) = 1
         /\ \A e \in Inserts("B") :
              e.key = pair =>
                /\ \E r \in committed.shipment : r.id = e.id
                /\ ShipmentRow(committed.shipment, e.id).quantity
                     = Cardinality(RowsOfPair(pair))
    /\ \A e \in Inserts("B") : e.key \in PairsB
    /\ \A e, f \in Inserts("B") : e.key = f.key => e = f

\* C2's case: a pair carried by several rows next to another pair of the
\* same shipment whose name differs only by a blank.
C2_Witness ==
  /\ PathBCommitted
  /\ \E p, q \in PairsB :
       /\ p # q
       /\ p[1] = q[1]
       /\ Strip(p[2]) = Strip(q[2])
       /\ Cardinality(RowsOfPair(p)) >= 2

\* The identifiers of Source C and the route of the record that carries one.
IdsC == IF ColsC \subseteq fileC.header THEN Column(fileC, "shipment_identifier") ELSE {}

RoutesOfC(s) ==
  {<<fileC.rows[k].origin_warehouse, fileC.rows[k].destination_store>> : k \in
     {k \in DOMAIN fileC.rows : fileC.rows[k].shipment_identifier = s}}

\* C5: once Path B has committed, every pair of Source B has its shipment
\* row; the row of a pair whose identifier is not in Source C has origin
\* "Unknown Origin" and destination "Unknown Destination", and the row of a
\* pair whose identifier is in Source C has that record's origin and
\* destination and neither sentinel.
C5_RouteMissFallback ==
  PathBCommitted =>
    \A pair \in PairsB :
      \E e \in Inserts("B") :
        /\ e.key = pair
        /\ \E r \in committed.shipment :
             /\ r.id = e.id
             /\ IF pair[1] \in IdsC
                  THEN /\ <<r.origin, r.destination>> \in RoutesOfC(pair[1])
                       /\ r.origin # UnknownOrigin
                       /\ r.destination # UnknownDestination
                  ELSE /\ r.origin = UnknownOrigin
                       /\ r.destination = UnknownDestination

\* C5's case: one pair with a route and one without, both committed.
C5_Witness ==
  /\ PathBCommitted
  /\ \E p, q \in PairsB : p[1] \in IdsC /\ q[1] \notin IdsC
  /\ \E r \in committed.shipment : r.origin = UnknownOrigin

\* The route of the last Source-C record that carries the identifier s.
LastRouteOfC(s) ==
  LET last == CHOOSE k \in DOMAIN fileC.rows :
                /\ fileC.rows[k].shipment_identifier = s
                /\ \A j \in DOMAIN fileC.rows :
                     fileC.rows[j].shipment_identifier = s => j <= k
  IN  [origin_warehouse |-> fileC.rows[last].origin_warehouse,
       destination_store |-> fileC.rows[last].destination_store]

\* C8: building the route map never fails on a repeated identifier, and the
\* map Path B works with gives every identifier of Source C the origin and
\* destination of its last record.
C8_LastWriteWins ==
  /\ fault # "route_map"
  /\ pc = "path_b_row" =>
       \A s \in IdsC : /\ s \in DOMAIN route_mapping
                       /\ route_mapping[s] = LastRouteOfC(s)

\* The shipment inserts that Path A made in this run for row k, as they
\* stand in the next state.
NewInsertsA(k) == {e \in Range(provenance') : e.run = run /\ e.path = "A" /\ e.idx = k}

C3_ResolveIdempotent ==
  \A i, j \in DOMAIN resolved :
    (i < j /\ resolved[i].name = resolved[j].name) =>
      /\ resolved[i].ok /\ resolved[j].ok
      /\ resolved[j].id = resolved[i].id
      /\ resolved[j].after = resolved[j].before

\* C3's case: a name resolved and created in Path A, resolved again in Path A
\* and again in Path B.
C3_Witness ==
  \E i, j, k \in DOMAIN resolved :
    /\ i < j /\ j < k
    /\ resolved[i].name = resolved[j].name
    /\ resolved[j].name = resolved[k].name
    /\ resolved[i].after # resolved[i].before
    /\ resolved[j].path = "A"
    /\ resolved[k].path = "B"

UniqueNames(table) == \A p, q \in table : p.name = q.name => p = q

\* C4: in every state, neither the product table the connection sees nor the
\* committed product table holds two rows of the same name.
C4_UniqueNames == UniqueNames(product) /\ UniqueNames(committed.product)

\* C4's case: a later run, its cache empty at the start, has resolved a name
\* that an earlier run left in the store.
C4_Witness ==
  /\ run > 1
  /\ \E c \in Range(resolved) :
       /\ c.before # {}
       /\ \E h \in Range(history) : \E p \in h.product : p.name = c.name
  /\ Cardinality(product) >= 2

BothRunsSucceeded ==
  /\ Len(history) >= 2
  /\ history[1].outcome = "success"
  /\ history[2].outcome = "success"

Unkeyed(table) ==
  {<<r.product_id, r.quantity, r.origin, r.destination>> : r \in table}

\* C7: when the first run and the rerun on the same files both succeed, the
\* shipment table after the rerun holds twice the rows and twice the total
\* quantity it held after the first run (the first run's rows and as many
\* new ones with the same contents), and the same product rows.
C7_RerunDoubles ==
  BothRunsSucceeded =>
    /\ Cardinality(history[2].shipment) = 2 * Cardinality(history[1].shipment)
    /\ SumQuantity(history[2].shipment) = 2 * SumQuantity(history[1].shipment)
    /\ history[1].shipment \subseteq history[2].shipment
    /\ Unkeyed(history[2].shipment \ history[1].shipment) = Unkeyed(history[1].shipment)
    /\ history[2].product = history[1].product

\* C7's case: two successful runs that loaded shipments from both paths.
C7_Witness ==
  /\ BothRunsSucceeded
  /\ Cardinality(history[1].shipment) >= 3
  /\ Cardinality(history[1].product) >= 1
  /\ \E r \in history[1].shipment : r.origin = UnknownOrigin

\* C9: when the process has exited, no connection that the run opened is
\* still open: neither the temporary connection of connect_to_database nor
\* the processor's connection.
C9_AllConnectionsClosed ==
  pc = "exited" => temp_connection # "open" /\ connection # "open"

\* C10: a run that ends with a non-zero exit failed in connection
\* establishment or in schema creation.
C10_OnlySetupFailuresAreFatal ==
  exit_code = 1 => fault \in {"connect", "schema"}

\* What raises out of a method of the processor into main's handler.
SetupFaults == {"connect", "schema"}

BatchFaults == {"read_a", "commit_a", "read_b", "read_c", "missing_column",
                "route_map", "commit_b"}

\* C10 as amended: a run ends with a non-zero exit exactly when connection
\* establishment, schema creation or a path as a whole failed (an unreadable
\* file, a missing column of Source B or C, the route map not built, a failed
\* commit); rows skipped by a path's per-row handler and errors logged by
\* validation leave the exit status zero.
C10_FatalFaults ==
  /\ pc = "exited" =>
       /\ exit_code = 1 <=> fault \in SetupFaults \cup BatchFaults
       /\ exit_code = 0 <=> fault \in {"none", "validation_logged"}
  /\ pc = "except" => fault \in SetupFaults \cup BatchFaults
  /\ fault \notin SetupFaults \cup BatchFaults => pc # "except" /\ outcome # "fatal"

\* C10's case: a run that skipped rows in Path A, took the sentinels in
\* Path B and exited with zero.
C10_Witness ==
  /\ pc = "exited"
  /\ exit_code = 0
  /\ outcome = "success"
  /\ row_errors > 0
  /\ \E r \in committed.shipment : r.origin = UnknownOrigin

\* The positions in this run's events of a path's reads, rows or commits.
EventsAt(path, op) ==
  {i \in DOMAIN events : events[i].path = path /\ events[i].op = op}

\* The positions of the commits of a path that succeeded.
Commits(path) == {i \in EventsAt(path, "commit") : events[i].ok}

\* The number of rows a path's loop has to go through.
BatchSize(path) == IF path = "A" THEN Len(fileA.rows) ELSE Len(shipment_products)

\* C11: in every run, whatever Path B does (reading Sources B and C, a row,
\* its commit) comes after a successful commit of Path A; each path issues at
\* most one commit, after every row of its batch and with no row after it,
\* and exactly one when it returned normally; and when Path A has raised (its
\* read or its commit failed) Path B has done nothing.
C11_PathOrdering ==
  /\ \A j \in DOMAIN events :
       events[j].path = "B" => \E i \in Commits("A") : i < j
  /\ \A p \in {"A", "B"} :
       /\ Cardinality(EventsAt(p, "commit")) <= 1
       /\ \A i \in EventsAt(p, "commit") :
            /\ \A j \in EventsAt(p, "row") : j < i
            /\ Cardinality(EventsAt(p, "row")) = BatchSize(p)
  /\ pc \in {"path_b_read", "path_b_row"} => Cardinality(Commits("A")) = 1
  /\ pc = "validate" => Cardinality(Commits("B")) = 1
  /\ fault \in {"read_a", "commit_a"} =>
       \A j \in DOMAIN events : events[j].path # "B"

\* C11's case: both paths went through a batch of rows and committed.
C11_Witness ==
  /\ pc = "validate"
  /\ Cardinality(EventsAt("A", "row")) >= 2
  /\ Cardinality(EventsAt("B", "row")) >= 2
  /\ Commits("A") # {}
  /\ Commits("B") # {}

\* The products that Path B's calls of get_or_create_product_id created.
CreatedByB ==
  UNION {resolved[k].after \ resolved[k].before :
           k \in {n \in DOMAIN resolved : resolved[n].path = "B"}}

\* C12: when a run has ended with a fatal error after Path A's commit and the
\* connection is closed, the store holds every product and shipment row that
\* Path A committed; and unless Path B committed too, it holds exactly those
\* rows: no shipment row that Path B inserted, no product row that Path B
\* created.
C12_CommitDurability ==
  (pc = "exited" /\ outcome = "fatal") =>
    \A i \in Commits("A") :
      /\ product = committed.product
      /\ shipment = committed.shipment
      /\ events[i].product \subseteq committed.product
      /\ events[i].shipment \subseteq committed.shipment
      /\ Commits("B") = {} =>
           /\ committed.product = events[i].product
           /\ committed.shipment = events[i].shipment
           /\ \A e \in Inserts("B") : \A r \in committed.shipment : r.id # e.id
           /\ CreatedByB \cap committed.product = {}

\* C12's case: Path A committed rows, Path B inserted shipment rows and
\* created a product, its commit failed and the process has exited.
C12_Witness ==
  /\ pc = "exited"
  /\ outcome = "fatal"
  /\ fault = "commit_b"
  /\ \E i \in Commits("A") : events[i].shipment # {} /\ events[i].product # {}
  /\ Inserts("B") # {}
  /\ CreatedByB # {}

\* Row k of Source A lacks one of its four fields: the column is absent or
\* the cell is empty.
MissingFieldA(k) ==
  \E c \in ColsA : c \notin fileA.header \/ IsNaN(fileA.rows[k][c])

\* C13: an iteration of Path A's loop on a row that lacks one of product,
\* product_quantity, origin_warehouse or destination_store adds no shipment
\* row and no product row, counts a row error and goes on to the next row.
C13_MissingFieldSkipped ==
  [][(pc = "path_a_row" /\ idx <= Len(fileA.rows) /\ MissingFieldA(idx)) =>
       /\ shipment' = shipment
       /\ product' = product
       /\ row_errors' = row_errors + 1
       /\ idx' = idx + 1
       /\ pc' = "path_a_row"]_vars

=============================================================================
